---- MODULE Spec2Model ----
(***************************************************************************)
(* Robot task scheduling: the time-indexed assignment model of             *)
(* SimpleMILPScheduler / MILPScheduler, the decoder of a solved model, the *)
(* schedule validator of BaseScheduler and the incremental feasibility     *)
(* checker of EnduranceBaseScheduler.                                      *)
(*                                                                         *)
(* Conventions.                                                            *)
(*  - Times are integer seconds relative to the first clock reading of a   *)
(*    call; a timedelta is a number of seconds.                            *)
(*  - Amounts and capacities are floats in the source; here they are       *)
(*    integers counting tenths (1.0 is 10, 0.6 is 6).                      *)
(*  - Python's None is the empty sequence << >>, a set value v is <<v>>.   *)
(*  - Tasks and robots are indexed from 1 (the source indexes from 0);     *)
(*    slots are indexed from 0 as in the source.                           *)
(*  - The solved x variables are the set of triples <<i, j, t>> whose      *)
(*    solution value is 1; every other x[i,j,t] is 0.                      *)
(***************************************************************************)
EXTENDS Integers, Sequences, FiniteSets, TLC

VARIABLES
    scheduler,        \* class of the scheduler object that takes the call
    tasks,            \* argument `tasks` of schedule()
    resources,        \* argument `resources` of schedule()
    pc,               \* "ready" before the call, "returned" / "raised" after
    solver,           \* what the external solver did during the call
    clock,            \* clock[i]: datetime.now() read while decoding task i
    modelBuilt,       \* the call created decision variables
    solverCalled,     \* the call reached Solve() / model.solve()
    time_horizon,     \* the value _calculate_time_horizon returned, if called
    result,           \* the ScheduleResult returned
    schedule,         \* argument `schedule` of validate_schedule
    dependencies,     \* task id -> ids it depends on (Task.dependencies)
    resource_manager, \* self.resource_manager of the scheduler
    valid,            \* value returned by validate_schedule
    statistics,       \* dict returned by get_schedule_statistics, if called
    task,             \* argument `task` of the feasibility checker
    scheduled_tasks,  \* argument `scheduled_tasks` of the feasibility checker
    errors,           \* list returned by the feasibility checker
    method,           \* the checker method that returned `errors`
    calls,            \* calls[c]: the frame of the c-th concurrent schedule()
    store             \* where the solved variables of the calls are kept

vars == <<scheduler, tasks, resources, pc, solver, clock, modelBuilt,
          solverCalled, time_horizon, result, schedule, dependencies,
          resource_manager,
          valid, statistics, task, scheduled_tasks, errors, method,
          calls, store>>

milpVars == <<scheduler, tasks, resources, solver, clock, modelBuilt,
              solverCalled, time_horizon, result>>
validateVars == <<schedule, dependencies, valid, statistics>>
checkerVars == <<task, scheduled_tasks, errors, method>>
concurrentVars == <<calls, store>>

-----------------------------------------------------------------------------
(* Bounds of the exploration. *)

\* Start and end times of the scheduled tasks given to validate_schedule
\* are drawn from 0..MaxTime.
MaxTime == 3
\* The candidate given to the feasibility checker has 0..MaxConstraints
\* resource constraints, and 0..MaxScheduled tasks are scheduled before it.
MaxConstraints == 2
MaxScheduled == 2
\* x variables and start values y are explored on slots 0..MaxSlot.
MaxSlot == 1

(* Program constants. *)
SecondsPerMinute == 60
MinHorizon == 100
DecodeLimit == 1000

-----------------------------------------------------------------------------
(* Generic helpers. *)

None == << >>
Some(v) == <<v>>

Max(a, b) == IF a >= b THEN a ELSE b
Min(a, b) == IF a <= b THEN a ELSE b

MinOf(S) == CHOOSE m \in S : \A e \in S : m <= e
MaxOf(S) == CHOOSE m \in S : \A e \in S : m >= e

RECURSIVE SumSeq(_)
SumSeq(s) == IF s = << >> THEN 0 ELSE Head(s) + SumSeq(Tail(s))

RECURSIVE SubsetsUpTo(_, _)
SubsetsUpTo(S, k) ==
    IF k = 0 THEN {{}}
    ELSE LET prev == SubsetsUpTo(S, k - 1)
         IN  prev \cup {p \cup {e} : p \in prev, e \in S}

\* Python's enumerate / list comprehension with a filter.
Indexes(s) == 1..Len(s)

-----------------------------------------------------------------------------
(* Inputs of schedule(). *)

TaskIds == <<"A", "B">>
UnknownTaskId == "X"
Durations == {30, 60, 90}
Priorities == {1, 2}
\* Seconds by which the clock advances between the decoding of two tasks.
ClockSteps == {0, 1}

\* Dependencies a task at position i of an n-task list may declare.
DependencyChoices(i, n) ==
    {{}} \cup {{TaskIds[k]} : k \in (1..n) \ {i}}
         \cup (IF i = n THEN {{UnknownTaskId}} ELSE {})

\* The task list with the given durations, priorities and dependencies.
TaskList(d, p, dep) ==
    [i \in DOMAIN d |-> [id |-> TaskIds[i], duration |-> d[i],
                         priority |-> p[i], dependencies |-> dep[i]]]

Robot(id, cap) == [id |-> id, resource_type |-> "robot", capacity |-> cap]
Tool(id, cap) == [id |-> id, resource_type |-> "tool", capacity |-> cap]

ResourceLists ==
    { << >>,
      <<Tool("T1", 10)>>,
      <<Robot("R1", 10)>>,
      <<Robot("R1", 10), Tool("T1", 10), Robot("R2", 20)>> }

SchedulerClasses == {"SimpleMILPScheduler", "MILPScheduler"}

-----------------------------------------------------------------------------
(* ScheduleStatus and ScheduleResult. *)

ScheduleStatus == {"success", "failed", "partial", "timeout"}

ScheduleResult(status, sched, objective, message) ==
    [status |-> status, schedule |-> sched,
     objective_value |-> objective, message |-> message]

NoResult == ScheduleResult("none", << >>, None, "")

\* What a call did: the value it returned or the exception that left it,
\* whether it created decision variables, whether it called the solver, the
\* solver run it observed and the clock readings it took.
Returned(res, built, solved, run, now) ==
    [exception |-> "", result |-> res, built |-> built, solved |-> solved,
     solver |-> run, clock |-> now]
Raised(exc, built, solved, run) ==
    [exception |-> exc, result |-> NoResult, built |-> built, solved |-> solved,
     solver |-> run, clock |-> << >>]

-----------------------------------------------------------------------------
(* The time horizon and the assignment model.                              *)
(* An assignment is a record [x, y, z, makespan]: x the set of triples set *)
(* to 1, y and z sequences indexed by task, makespan an integer.           *)

\* int(task.duration.total_seconds() / 60)
SlotDuration(t) == t.duration \div SecondsPerMinute

\* Mutant of CalculateTimeHorizon: the buffer factor 1.5 is missing.
CalculateTimeHorizonNoBuffer(ts) ==
    LET total_duration == SumSeq([i \in Indexes(ts) |-> ts[i].duration])
    IN  Max(total_duration \div SecondsPerMinute, MinHorizon)

\* _calculate_time_horizon: max(int(total_seconds * 1.5 / 60), 100)
CalculateTimeHorizon(ts) ==
    LET total_duration == SumSeq([i \in Indexes(ts) |-> ts[i].duration])
    IN  Max((total_duration * 15) \div (10 * SecondsPerMinute), MinHorizon)

\* [r for r in resources if r.resource_type == ResourceType.ROBOT]
Robots(rs) == SelectSeq(rs, LAMBDA r : r.resource_type = "robot")

\* next((j for j, t in enumerate(tasks) if t.id == dep_id), 0): a dep_id
\* that names no task of the list stands for the first task.
DepIndexesDefaultFirst(ts, i) ==
    { IF \E k \in Indexes(ts) : ts[k].id = dep_id
      THEN MinOf({k \in Indexes(ts) : ts[k].id = dep_id})
      ELSE 1
      : dep_id \in ts[i].dependencies }

\* next((j for j, t in enumerate(tasks) if t.id == dep_id), None), for every
\* dep_id of task i that names a task of the list.
DepIndexes(ts, i) ==
    { MinOf({k \in Indexes(ts) : ts[k].id = dep_id})
      : dep_id \in {d \in ts[i].dependencies : \E k \in Indexes(ts) : ts[k].id = d} }

\* Slots t at which the capacity row of robot j has to be looked at.  The
\* row of slot t sums the variables x[i, j, start_t] with start_t in
\* t - duration + 1 .. t; a sum over variables that are all 0 is within the
\* capacity, and the number of variables at 1 in the row is largest at a
\* slot t that is itself the start_t of a variable at 1.
ActiveSlots(ts, T, x, j) ==
    {t \in {tr[3] : tr \in {u \in x : u[2] = j}} : t < T}

\* solver.Constraint(0, 1) over x[i, j, t], j in robots, for t in
\* range(time_horizon - duration + 1).
SimpleSingleAssignment(ts, robots, T, a) ==
    \A tr \in a.x :
        tr[3] <= T - SlotDuration(ts[tr[1]])
            => Cardinality({j \in Indexes(robots) : <<tr[1], j, tr[3]>> \in a.x}) <= 1

\* solver.Constraint(duration, duration) over z[i] - y[i].
DurationLinkage(ts, a) ==
    \A i \in Indexes(ts) : a.z[i] - a.y[i] = SlotDuration(ts[i])

\* solver.Constraint(0, robot.capacity) over x[i, j, start_t] for start_t in
\* range(max(0, t - duration + 1), min(time_horizon, t + 1)).
SimpleCapacity(ts, robots, T, a) ==
    \A j \in Indexes(robots) :
        \A t \in ActiveSlots(ts, T, a.x, j) :
            10 * Cardinality({tr \in a.x :
                                /\ tr[2] = j
                                /\ tr[3] >= Max(0, t - SlotDuration(ts[tr[1]]) + 1)
                                /\ tr[3] < Min(T, t + 1)})
                <= robots[j].capacity

\* solver.Constraint(0, infinity) over z[i] - makespan.
SimpleMakespan(ts, a) ==
    \A i \in Indexes(ts) : a.z[i] - a.makespan >= 0

\* solver.Constraint(0, infinity) over y[i] - z[dep_index].
SimpleDependencies(ts, a) ==
    \A i \in Indexes(ts) : \A k \in DepIndexes(ts, i) : a.y[i] - a.z[k] >= 0

\* IntVar bounds of the OR-Tools model.
SimpleBounds(ts, robots, T, a) ==
    /\ \A tr \in a.x : tr[1] \in Indexes(ts) /\ tr[2] \in Indexes(robots)
                       /\ tr[3] \in 0..(T - 1)
    /\ \A i \in Indexes(ts) : a.y[i] \in 0..(T - 1) /\ a.z[i] \in 0..T
    /\ a.makespan \in 0..T

\* Every constraint SimpleMILPScheduler.schedule adds to the solver.
SimpleModel(ts, robots, T, a) ==
    /\ SimpleBounds(ts, robots, T, a)
    /\ SimpleSingleAssignment(ts, robots, T, a)
    /\ DurationLinkage(ts, a)
    /\ SimpleCapacity(ts, robots, T, a)
    /\ SimpleMakespan(ts, a)
    /\ SimpleDependencies(ts, a)

\* The first constraint loop reads x[i, j, t] for t up to time_horizon -
\* duration, a key that does not exist when duration is 0: KeyError.
SimpleBuildRaises(ts) ==
    \E i \in Indexes(ts) : SlotDuration(ts[i]) = 0

\* sum(x[i, j, t] for j) <= 1 for every task and slot.
MILPSingleAssignment(ts, robots, a) ==
    \A tr \in a.x :
        Cardinality({j \in Indexes(robots) : <<tr[1], j, tr[3]>> \in a.x}) <= 1

\* sum(x[i, j, t] for i) <= robot.capacity for every robot and slot.
MILPCapacity(ts, robots, a) ==
    \A tr \in a.x :
        10 * Cardinality({i \in Indexes(ts) : <<i, tr[2], tr[3]>> \in a.x})
            <= robots[tr[2]].capacity

\* z[i] <= makespan.
MILPMakespan(ts, a) ==
    \A i \in Indexes(ts) : a.z[i] <= a.makespan

\* y[i] >= z[dep_index].
MILPDependencies(ts, a) ==
    \A i \in Indexes(ts) : \A k \in DepIndexes(ts, i) : a.y[i] >= a.z[k]

\* y[i] <= y[j] whenever i != j and priority(i) > priority(j).
MILPPriority(ts, a) ==
    \A i \in Indexes(ts), j \in Indexes(ts) :
        (i # j /\ ts[i].priority > ts[j].priority) => a.y[i] <= a.y[j]

\* cp.Variable(boolean=True) / cp.Variable(integer=True, nonneg=True).
MILPBounds(ts, robots, T, a) ==
    /\ \A tr \in a.x : tr[1] \in Indexes(ts) /\ tr[2] \in Indexes(robots)
                       /\ tr[3] \in 0..(T - 1)
    /\ \A i \in Indexes(ts) : a.y[i] >= 0 /\ a.z[i] >= 0
    /\ a.makespan >= 0

\* Every constraint MILPScheduler._create_milp_model puts in the problem.
MILPModel(ts, robots, T, a) ==
    /\ MILPBounds(ts, robots, T, a)
    /\ MILPSingleAssignment(ts, robots, a)
    /\ DurationLinkage(ts, a)
    /\ MILPCapacity(ts, robots, a)
    /\ MILPMakespan(ts, a)
    /\ MILPDependencies(ts, a)
    /\ MILPPriority(ts, a)

-----------------------------------------------------------------------------
(* The external solver.  A run of the solver is a record                   *)
(* [outcome, x, y, z, makespan].  OPTIMAL and FEASIBLE carry an assignment *)
(* that satisfies the model handed over; the other outcomes carry none.    *)

NoAssignment == [x |-> {}, y |-> << >>, z |-> << >>, makespan |-> 0]

SolverRun(outcome, a) ==
    [outcome |-> outcome, x |-> a.x, y |-> a.y, z |-> a.z, makespan |-> a.makespan]

NotAsked == SolverRun("NOT_ASKED", NoAssignment)

\* UNAVAILABLE: the backend cannot be created.  EXCEPTION: the solve call
\* raises.  INFEASIBLE: no assignment exists.  NOT_SOLVED: the time budget
\* ran out before any assignment was found.
FailedOutcomes == {"UNAVAILABLE", "EXCEPTION", "INFEASIBLE", "NOT_SOLVED"}
SolvedOutcomes == {"OPTIMAL", "FEASIBLE"}

MaxSlotDuration(ts) ==
    IF ts = << >> THEN 0 ELSE MaxOf({SlotDuration(ts[i]) : i \in Indexes(ts)})

\* The model of the scheduler class, as a predicate on assignments.
Model(class, ts, robots, T, a) ==
    IF class = "SimpleMILPScheduler"
    THEN SimpleModel(ts, robots, T, a)
    ELSE MILPModel(ts, robots, T, a)

\* The explored values of y, z and makespan that satisfy the model (with
\* every x at 0, which satisfies each row over x): y on 0..MaxSlot, z[i]
\* from one slot below the slot duration of task i to one slot above
\* MaxSlot plus that duration, makespan up to the largest such z.
ExploredTimes(class, ts, robots, T) ==
    LET n == Len(ts)
        top == MaxSlot + MaxSlotDuration(ts)
    IN  { a \in { [x |-> {}, y |-> ys,
                   z |-> [i \in 1..n |-> Max(0, SlotDuration(ts[i]) + over[i])],
                   makespan |-> mk]
                  : ys \in [1..n -> 0..MaxSlot],
                    over \in [1..n -> (-1)..(MaxSlot + 1)],
                    mk \in 0..top }
          : Model(class, ts, robots, T, a) }

\* The slots on which x variables are explored: the first ones and, on a
\* horizon that reaches past the slots the MILPScheduler decoder reads, the
\* last one.
ExploredSlots(T) ==
    (0..Min(MaxSlot, T - 1)) \cup (IF T > DecodeLimit THEN {T - 1} ELSE {})

\* The explored assignments that satisfy the model: x has at most as many
\* variables at 1 as there are task ids, enough to start every task once or
\* to give one task two places.
ExploredAssignments(class, ts, robots, T) ==
    LET triples == (Indexes(ts) \X Indexes(robots)) \X ExploredSlots(T)
        xs == { {<<tr[1][1], tr[1][2], tr[2]>> : tr \in s}
                : s \in SubsetsUpTo(triples, Len(TaskIds)) }
    IN  { a \in { [x |-> x, y |-> b.y, z |-> b.z, makespan |-> b.makespan]
                  : x \in xs, b \in ExploredTimes(class, ts, robots, T) }
          : Model(class, ts, robots, T, a) }

\* Every run the solver can make on the model of the class.
SolverRuns(class, ts, robots, T) ==
    LET sat == ExploredAssignments(class, ts, robots, T)
        best == IF sat = {} THEN 0 ELSE MinOf({a.makespan : a \in sat})
    IN  {SolverRun(o, NoAssignment) : o \in FailedOutcomes}
        \cup {SolverRun("FEASIBLE", a) : a \in sat}
        \cup {SolverRun("OPTIMAL", a) : a \in {b \in sat : b.makespan = best}}

\* Nondecreasing clock readings, the first one taken as time 0.
RECURSIVE Clocks(_)
Clocks(n) ==
    IF n = 0 THEN {<< >>}
    ELSE IF n = 1 THEN {<<0>>}
    ELSE { Append(c, c[n - 1] + step) : c \in Clocks(n - 1), step \in ClockSteps }

-----------------------------------------------------------------------------
(* The solution decoder. *)

\* The (robot, slot) the decoder settles on for task i, or None: the first
\* robot, in list order, with an x[i, j, t] > 0.5 at a slot below `limit`,
\* and the first such slot of that robot.
DecodedPlace(robots, x, i, limit) ==
    LET hit(j) == {tr[3] : tr \in {u \in x : u[1] = i /\ u[2] = j /\ u[3] < limit}}
        assigned == {j \in Indexes(robots) : hit(j) # {}}
    IN  IF assigned = {} THEN None
        ELSE LET j == MinOf(assigned) IN Some(<<j, MinOf(hit(j))>>)

\* Mutant of ScheduledRecord: the end is taken from the slot duration.
ScheduledRecordInSlots(t, robot, start_slot, now) ==
    LET start_datetime == now + start_slot * SecondsPerMinute
    IN  [task_id |-> t.id,
         robot_id |-> robot.id,
         start_time |-> start_datetime,
         end_time |-> start_datetime + SlotDuration(t) * SecondsPerMinute,
         priority |-> t.priority,
         resources |-> (robot.id :> 10)]

\* The record appended for task i at the decoded place.
ScheduledRecord(t, robot, start_slot, now) ==
    LET start_datetime == now + start_slot * SecondsPerMinute
    IN  [task_id |-> t.id,
         robot_id |-> robot.id,
         start_time |-> start_datetime,
         end_time |-> start_datetime + t.duration,
         priority |-> t.priority,
         resources |-> (robot.id :> 10)]

RECURSIVE ExtractFrom(_, _, _, _, _, _)
ExtractFrom(ts, robots, x, now, limit, i) ==
    IF i > Len(ts) THEN << >>
    ELSE LET place == DecodedPlace(robots, x, i, limit)
             rest == ExtractFrom(ts, robots, x, now, limit, i + 1)
         IN  IF place = None THEN rest
             ELSE <<ScheduledRecord(ts[i], robots[place[1][1]], place[1][2], now[i])>>
                  \o rest

\* SimpleMILPScheduler._extract_ortools_solution: t in range(time_horizon).
ExtractOrtoolsSolution(ts, robots, T, x, now) ==
    ExtractFrom(ts, robots, x, now, T, 1)

\* MILPScheduler._extract_solution: t in range(1000), keys that exist.
ExtractSolution(ts, robots, T, x, now) ==
    ExtractFrom(ts, robots, x, now, Min(DecodeLimit, T), 1)

-----------------------------------------------------------------------------
(* schedule() of the two scheduler classes. *)

Failed(message) == ScheduleResult("failed", << >>, None, message)

Success(sched, objective) ==
    ScheduleResult("success", sched, objective,
                   "Schedule created with " \o ToString(Len(sched)) \o " tasks")

\* Mutant of NothingToSchedule: `and` in place of `or`.
NothingToScheduleBothEmpty(ts, rs) == Len(ts) = 0 /\ Len(rs) = 0

\* if not tasks or not resources
NothingToSchedule(ts, rs) == Len(ts) = 0 \/ Len(rs) = 0

\* Mutant of SolutionFound: the status of the solve is not looked at.
SolutionFoundAlways(outcome) == outcome = outcome

\* status == pywraplp.Solver.OPTIMAL or status == pywraplp.Solver.FEASIBLE
SolutionFound(outcome) == outcome = "OPTIMAL" \/ outcome = "FEASIBLE"

\* Mutant of Except: the handler is missing and the exception leaves the call.
ExceptNothing(o) == o

\* except Exception as e: return ScheduleResult(FAILED, [], message=...)
Except(o) ==
    IF o.exception # ""
    THEN Returned(Failed("Error in MILP scheduling: " \o o.exception),
                  o.built, o.solved, o.solver, o.clock)
    ELSE o

\* The try block of SimpleMILPScheduler.schedule.
SimpleTry(ts, rs, run, now) ==
    LET robots == Robots(rs)
        T == CalculateTimeHorizon(ts)
    IN  IF Len(robots) = 0
        THEN Returned(Failed("No robots available for scheduling"),
                      FALSE, FALSE, NotAsked, << >>)
        ELSE IF run.outcome = "UNAVAILABLE"
        THEN Returned(Failed("Could not create OR-Tools solver"),
                      FALSE, FALSE, run, << >>)
        ELSE IF SimpleBuildRaises(ts)
        THEN Raised("KeyError", TRUE, FALSE, NotAsked)
        ELSE IF run.outcome = "EXCEPTION"
        THEN Raised("solver raised", TRUE, TRUE, run)
        ELSE IF SolutionFound(run.outcome)
        THEN Returned(Success(ExtractOrtoolsSolution(ts, robots, T, run.x, now),
                              Some(run.makespan)),
                      TRUE, TRUE, run, now)
        ELSE Returned(Failed("Solver failed with status: " \o run.outcome),
                      TRUE, TRUE, run, << >>)

\* SimpleMILPScheduler.schedule
SimpleSchedule(ts, rs, run, now) ==
    IF NothingToSchedule(ts, rs)
    THEN Returned(Failed("No tasks or resources provided"),
                  FALSE, FALSE, NotAsked, << >>)
    ELSE Except(SimpleTry(ts, rs, run, now))

\* variables[var_name].value is a number only after a solve that found a
\* solution; it is None otherwise and `None > 0.5` raises TypeError.
ValuesSet(outcome) == outcome \in SolvedOutcomes

\* The try block of MILPScheduler.schedule: _create_milp_model,
\* _solve_model, _extract_solution.
MILPTry(ts, rs, run, now) ==
    LET robots == Robots(rs)
        T == CalculateTimeHorizon(ts)
    IN  IF Len(robots) = 0
        THEN Raised("No robots available for scheduling", FALSE, FALSE, NotAsked)
        ELSE IF run.outcome \in {"UNAVAILABLE", "EXCEPTION"}
        THEN Raised("Failed to solve MILP model: solver raised", TRUE, TRUE, run)
        ELSE IF ~ValuesSet(run.outcome)
        THEN Raised("'>' not supported between instances of 'NoneType' and 'float'",
                    TRUE, TRUE, run)
        ELSE Returned(Success(ExtractSolution(ts, robots, T, run.x, now), None),
                      TRUE, TRUE, run, now)

\* MILPScheduler.schedule
MILPSchedule(ts, rs, run, now) ==
    IF NothingToSchedule(ts, rs)
    THEN Returned(Failed("No tasks or resources provided"),
                  FALSE, FALSE, NotAsked, << >>)
    ELSE Except(MILPTry(ts, rs, run, now))

-----------------------------------------------------------------------------
(* Specification Spec: one call of schedule() on given tasks and resources. *)

IdleValidate ==
    /\ schedule = << >>
    /\ dependencies = << >>
    /\ valid = TRUE
    /\ statistics = None

IdleConcurrent ==
    /\ calls = << >>
    /\ store = << >>

IdleChecker ==
    /\ task = << >>
    /\ scheduled_tasks = << >>
    /\ errors = << >>
    /\ method = "none"

Init ==
    /\ scheduler \in SchedulerClasses
    /\ \E n \in 0..Len(TaskIds) :
         \E d \in [1..n -> Durations], p \in [1..n -> Priorities] :
            \E dep \in [1..n -> SUBSET {TaskIds[1], TaskIds[2], UnknownTaskId}] :
                /\ \A i \in 1..n : dep[i] \in DependencyChoices(i, n)
                /\ tasks = TaskList(d, p, dep)
    /\ resources \in ResourceLists
    /\ pc = "ready"
    /\ solver = NotAsked
    /\ clock = << >>
    /\ modelBuilt = FALSE
    /\ solverCalled = FALSE
    /\ time_horizon = None
    /\ result = NoResult
    /\ resource_manager = None
    /\ IdleValidate
    /\ IdleChecker
    /\ IdleConcurrent

Finish(o) ==
    /\ pc' = IF o.exception = "" THEN "returned" ELSE "raised"
    /\ result' = o.result
    /\ solver' = o.solver
    /\ clock' = o.clock
    /\ modelBuilt' = o.built
    /\ solverCalled' = o.solved
    /\ time_horizon' = IF o.built THEN Some(CalculateTimeHorizon(tasks)) ELSE None
    /\ UNCHANGED <<scheduler, tasks, resources, resource_manager>>
    /\ UNCHANGED <<validateVars, checkerVars, concurrentVars>>

SimpleMILPSchedulerSchedule ==
    /\ pc = "ready"
    /\ scheduler = "SimpleMILPScheduler"
    /\ \E run \in SolverRuns(scheduler, tasks, Robots(resources),
                             CalculateTimeHorizon(tasks)) :
         \E now \in Clocks(Len(tasks)) :
            Finish(SimpleSchedule(tasks, resources, run, now))

MILPSchedulerSchedule ==
    /\ pc = "ready"
    /\ scheduler = "MILPScheduler"
    /\ \E run \in SolverRuns(scheduler, tasks, Robots(resources),
                             CalculateTimeHorizon(tasks)) :
         \E now \in Clocks(Len(tasks)) :
            Finish(MILPSchedule(tasks, resources, run, now))

Next ==
    \/ SimpleMILPSchedulerSchedule
    \/ MILPSchedulerSchedule

Spec == Init /\ [][Next]_vars

-----------------------------------------------------------------------------
(* Specification SpecHorizon: one call of schedule() on a task of eleven   *)
(* hours or more, for which the time horizon exceeds 1000 slots.           *)

LongDurations == {40080, 60000}

InitHorizon ==
    /\ scheduler \in SchedulerClasses
    /\ \E d \in LongDurations : tasks = TaskList(<<d>>, <<1>>, <<{}>>)
    /\ resources \in ResourceLists
    /\ pc = "ready"
    /\ solver = NotAsked
    /\ clock = << >>
    /\ modelBuilt = FALSE
    /\ solverCalled = FALSE
    /\ time_horizon = None
    /\ result = NoResult
    /\ resource_manager = None
    /\ IdleValidate
    /\ IdleChecker
    /\ IdleConcurrent

SpecHorizon == InitHorizon /\ [][Next]_vars

-----------------------------------------------------------------------------
(* Properties of schedule(), checked under Spec. *)

Called == pc # "ready"
IsSimple == scheduler = "SimpleMILPScheduler"
Succeeded == pc = "returned" /\ result.status = "success"

TaskOf(id) == tasks[CHOOSE i \in Indexes(tasks) : tasks[i].id = id]
Records == {result.schedule[k] : k \in Indexes(result.schedule)}
RobotOf(id) ==
    LET robots == SelectSeq(resources, LAMBDA r : r.resource_type = "robot")
    IN  robots[CHOOSE j \in Indexes(robots) : robots[j].id = id]

IsFailure ==
    /\ pc = "returned"
    /\ result.status = "failed"
    /\ result.schedule = << >>
    /\ result.message # ""

\* C1: in a schedule SimpleMILPScheduler decodes from an assignment that
\* satisfies its model, a task that depends on another scheduled task starts
\* no earlier than that task ends.
C1_DecodedPrecedence ==
    (IsSimple /\ Succeeded) =>
        \A ri \in Records : \A rk \in Records :
            rk.task_id \in TaskOf(ri.task_id).dependencies
                => ri.start_time >= rk.end_time

\* C2: in a schedule SimpleMILPScheduler decodes from an assignment that
\* satisfies its model, the number of records of one robot whose [start, end)
\* covers an instant never exceeds the capacity of that robot.  The number
\* of covering records changes only at a start time, so start times are the
\* instants to look at.
C2_DecodedCapacity ==
    (IsSimple /\ Succeeded) =>
        \A r \in Records :
            10 * Cardinality({k \in Indexes(result.schedule) :
                                /\ result.schedule[k].robot_id = r.robot_id
                                /\ result.schedule[k].start_time <= r.start_time
                                /\ r.start_time < result.schedule[k].end_time})
                <= RobotOf(r.robot_id).capacity

Scenario1 ==
    /\ Len(tasks) = 2
    /\ \A i \in Indexes(tasks) : tasks[i].dependencies = {}
    /\ resources = <<Robot("R1", 10)>>

\* C3: when SimpleMILPScheduler.schedule returns SUCCESS for an optimal
\* assignment, every input task has exactly one record in the schedule, in
\* input order; with 2 independent tasks and one robot of capacity 1 the two
\* records do not overlap in time.
C3_SuccessSchedulesEveryTask ==
    (IsSimple /\ Succeeded /\ solver.outcome = "OPTIMAL") =>
        /\ Len(result.schedule) = Len(tasks)
        /\ \A i \in Indexes(tasks) : result.schedule[i].task_id = tasks[i].id
        /\ Scenario1 =>
              \/ result.schedule[1].end_time <= result.schedule[2].start_time
              \/ result.schedule[2].end_time <= result.schedule[1].start_time

\* C4: schedule() of either class, given an empty task list or an empty
\* resource list, returns FAILED with an empty schedule and a non-empty
\* message; it raises nothing, creates no variable and calls no solver.
C4_EmptyInputFails ==
    (Called /\ (tasks = << >> \/ resources = << >>)) =>
        /\ IsFailure
        /\ ~modelBuilt
        /\ ~solverCalled
        /\ solver = NotAsked

C4_Witness ==
    /\ pc = "returned"
    /\ scheduler = "MILPScheduler"
    /\ tasks # << >>
    /\ resources = << >>
    /\ result.status = "failed"

\* C5: schedule() of either class, given resources none of which is a robot,
\* returns FAILED with an empty schedule and a non-empty message; the
\* ValueError of _create_milp_model does not leave schedule().
C5_NoRobotFails ==
    (/\ Called
     /\ resources # << >>
     /\ \A k \in Indexes(resources) : resources[k].resource_type # "robot")
        => IsFailure

C5_Witness ==
    /\ pc = "returned"
    /\ scheduler = "MILPScheduler"
    /\ tasks # << >>
    /\ resources = <<Tool("T1", 10)>>
    /\ result = Failed("Error in MILP scheduling: No robots available for scheduling")

\* C6: when the solver stops at the time budget without a solution, the
\* result of schedule() has status TIMEOUT.
C6_TimeoutStatus ==
    (pc = "returned" /\ solver.outcome = "NOT_SOLVED") => result.status = "timeout"

\* C7: schedule() never raises; a call whose solver could not be created,
\* raised, or left the variables without values returns FAILED with an empty
\* schedule and a non-empty message, and SUCCESS is returned only for an
\* optimal or feasible solve.
C7_NeverRaises ==
    Called =>
        /\ pc = "returned"
        /\ result.status \in {"success", "failed"}
        /\ result.status = "failed" => IsFailure
        /\ result.status = "success" => solver.outcome \in {"OPTIMAL", "FEASIBLE"}
        /\ solver.outcome \in {"UNAVAILABLE", "EXCEPTION", "INFEASIBLE", "NOT_SOLVED"}
              => IsFailure

C7_Witness ==
    /\ pc = "returned"
    /\ scheduler = "MILPScheduler"
    /\ solver.outcome = "INFEASIBLE"
    /\ solverCalled
    /\ result.status = "failed"
    /\ result.message # ""

-----------------------------------------------------------------------------
(* BaseScheduler.validate_schedule. *)

\* ResourceManager.get_resource: the resource registered under the id, or
\* None.  A manager is a function from resource ids to resources.
GetResource(manager, resource_id) ==
    IF resource_id \in DOMAIN manager THEN Some(manager[resource_id]) ELSE None

\* The usage entries appended to resource_usage[resource_id], in the order
\* of the schedule.
RECURSIVE UsageList(_, _)
UsageList(sched, resource_id) ==
    IF sched = << >> THEN << >>
    ELSE LET st == Head(sched)
             rest == UsageList(Tail(sched), resource_id)
         IN  IF resource_id \in DOMAIN st.resources
             THEN <<[start |-> st.start_time, end |-> st.end_time,
                     amount |-> st.resources[resource_id]]>> \o rest
             ELSE rest

\* Place u behind every entry that starts no later: list.sort is stable.
RECURSIVE InsertByStart(_, _)
InsertByStart(sorted, u) ==
    IF sorted = << >> THEN <<u>>
    ELSE IF Head(sorted).start <= u.start
         THEN <<Head(sorted)>> \o InsertByStart(Tail(sorted), u)
         ELSE <<u>> \o sorted

\* usage_list.sort(key=lambda x: x['start'])
RECURSIVE SortByStart(_)
SortByStart(list) ==
    IF list = << >> THEN << >>
    ELSE InsertByStart(SortByStart(SubSeq(list, 1, Len(list) - 1)), list[Len(list)])

\* The test of the amounts alone, without current['end'] > next_usage['start'].
ConflictWithoutOverlap(current, next_usage, manager, resource_id) ==
    LET resource == IF manager # None
                    THEN GetResource(manager[1], resource_id)
                    ELSE None
    IN  /\ resource # None
        /\ current.amount + next_usage.amount > resource[1].capacity

\* The test made on usage_list[i] and usage_list[i + 1]: they overlap, the
\* resource is known, and the two amounts exceed its capacity.
Conflict(current, next_usage, manager, resource_id) ==
    /\ current.end > next_usage.start
    /\ LET resource == IF manager # None
                       THEN GetResource(manager[1], resource_id)
                       ELSE None
       IN  /\ resource # None
           /\ current.amount + next_usage.amount > resource[1].capacity

\* validate_schedule: False as soon as one adjacent pair of one resource is
\* in conflict, True otherwise.
ValidateSchedule(sched, manager) ==
    \A resource_id \in UNION {DOMAIN sched[k].resources : k \in Indexes(sched)} :
        LET usage_list == SortByStart(UsageList(sched, resource_id))
        IN  \A i \in 1..(Len(usage_list) - 1) :
                ~Conflict(usage_list[i], usage_list[i + 1], manager, resource_id)

-----------------------------------------------------------------------------
(* Specification SpecValidate: validate_schedule on a given schedule, with *)
(* or without a resource manager.                                          *)

ScheduledIds == <<"A", "B", "C">>
Amounts == {4, 6}
\* "R1" is registered with the manager, "R9" is not.
UsedResourceIds == {"R1", "R9"}
Managers == { ("R1" :> Robot("R1", 10)) }

ScheduledTask(id, resource_id, start, end, amount) ==
    [task_id |-> id, robot_id |-> resource_id, start_time |-> start,
     end_time |-> end, resources |-> (resource_id :> amount), priority |-> 1]

\* What one scheduled task may be: the resource it uses, its [start, end)
\* and the amount it takes.
Usages ==
    UsedResourceIds \X {iv \in (0..MaxTime) \X (0..MaxTime) : iv[1] < iv[2]} \X Amounts

ScheduleOf(u) ==
    [i \in DOMAIN u |-> ScheduledTask(ScheduledIds[i], u[i][1], u[i][2][1],
                                      u[i][2][2], u[i][3])]

\* Task.dependencies of the tasks behind the schedule: none, or B after A.
DependencyMaps ==
    { [id \in {"A", "B", "C"} |-> {}],
      [id \in {"A", "B", "C"} |-> IF id = "B" THEN {"A"} ELSE {}] }

IdleMILP ==
    /\ scheduler = "BaseScheduler"
    /\ tasks = << >>
    /\ resources = << >>
    /\ solver = NotAsked
    /\ clock = << >>
    /\ modelBuilt = FALSE
    /\ solverCalled = FALSE
    /\ time_horizon = None
    /\ result = NoResult

InitValidate ==
    /\ pc = "ready"
    /\ resource_manager = None
    /\ \E n \in 0..Len(ScheduledIds) : \E u \in [1..n -> Usages] : schedule = ScheduleOf(u)
    /\ dependencies \in DependencyMaps
    /\ valid = TRUE
    /\ statistics = None
    /\ IdleMILP
    /\ IdleChecker
    /\ IdleConcurrent

\* BaseScheduler.set_managers
SetManagers ==
    /\ pc = "ready"
    /\ \E manager \in Managers : resource_manager' = Some(manager)
    /\ UNCHANGED <<pc, milpVars, validateVars, checkerVars, concurrentVars>>

ValidateScheduleCall ==
    /\ pc = "ready"
    /\ valid' = ValidateSchedule(schedule, resource_manager)
    /\ pc' = "returned"
    /\ UNCHANGED <<schedule, dependencies, statistics, resource_manager, milpVars,
                   checkerVars, concurrentVars>>

NextValidate ==
    \/ SetManagers
    \/ ValidateScheduleCall

SpecValidate == InitValidate /\ [][NextValidate]_vars

ScheduledRecords == {schedule[k] : k \in Indexes(schedule)}

\* C8: validate_schedule returns False for every schedule in which a task
\* starts before the end of a task it depends on.
C8_ValidateRejectsEarlyStart ==
    (/\ pc = "returned"
     /\ \E a \in ScheduledRecords, b \in ScheduledRecords :
            /\ a.task_id \in dependencies[b.task_id]
            /\ b.start_time < a.end_time)
        => valid = FALSE

\* C9: with a resource manager set, validate_schedule returns False whenever
\* two usages of one known resource overlap in time and their amounts
\* together exceed the capacity of the resource, wherever the two usages
\* stand in the list sorted by start time.
C9_ValidateRejectsEveryOverlap ==
    (/\ pc = "returned"
     /\ resource_manager # None
     /\ \E i \in Indexes(schedule), j \in Indexes(schedule) :
            /\ i # j
            /\ \E id \in DOMAIN schedule[i].resources \cap DOMAIN schedule[j].resources :
                  /\ id \in DOMAIN resource_manager[1]
                  /\ schedule[i].start_time < schedule[j].end_time
                  /\ schedule[j].start_time < schedule[i].end_time
                  /\ schedule[i].resources[id] + schedule[j].resources[id]
                        > resource_manager[1][id].capacity)
        => valid = FALSE

-----------------------------------------------------------------------------
(* EnduranceBaseScheduler.check_resource_constraints. *)

\* scheduled.get("resource_allocations", {})
ResourceAllocations(scheduled) ==
    IF "resource_allocations" \in DOMAIN scheduled
    THEN scheduled.resource_allocations
    ELSE << >>

\* current_usage.get(resource_id, 0.0) after the loop over scheduled_tasks.
RECURSIVE CurrentUsage(_, _)
CurrentUsage(scheduled, resource_id) ==
    IF scheduled = << >> THEN 0
    ELSE LET allocations == ResourceAllocations(Head(scheduled))
         IN  (IF resource_id \in DOMAIN allocations
              THEN allocations[resource_id] ELSE 0)
             + CurrentUsage(Tail(scheduled), resource_id)

NotFoundError(resource_id) == "Resource " \o resource_id \o " not found"
MinimumError(resource_id, min_amount) ==
    "Resource " \o resource_id \o " cannot provide minimum amount "
        \o ToString(min_amount)
MaximumError(resource_id, max_amount) ==
    "Resource " \o resource_id \o " max amount " \o ToString(max_amount)
        \o " exceeds capacity"

\* Mutant of CannotProvide: >= in place of >.
CannotProvideOrEqual(min_amount, available) == min_amount >= available

\* constraint.min_amount > available
CannotProvide(min_amount, available) == min_amount > available

\* The errors one resource constraint adds.
ConstraintErrors(manager, constraint, scheduled) ==
    LET resource_id == constraint.resource_id
        resource == GetResource(manager, resource_id)
    IN  IF resource = None THEN <<NotFoundError(resource_id)>>
        ELSE LET available == resource[1].available_capacity
                                - CurrentUsage(scheduled, resource_id)
             IN  (IF CannotProvide(constraint.min_amount, available)
                  THEN <<MinimumError(resource_id, constraint.min_amount)>>
                  ELSE << >>)
                 \o (IF constraint.max_amount > resource[1].max_capacity
                     THEN <<MaximumError(resource_id, constraint.max_amount)>>
                     ELSE << >>)

RECURSIVE AllConstraintErrors(_, _, _)
AllConstraintErrors(manager, constraints, scheduled) ==
    IF constraints = << >> THEN << >>
    ELSE ConstraintErrors(manager, Head(constraints), scheduled)
         \o AllConstraintErrors(manager, Tail(constraints), scheduled)

\* check_resource_constraints counting only the scheduled tasks whose
\* interval overlaps the window of the candidate.
CheckResourceConstraintsOverlapping(manager, candidate, scheduled) ==
    IF manager = None THEN << >>
    ELSE AllConstraintErrors(manager[1], candidate.resource_constraints,
             SelectSeq(scheduled,
                       LAMBDA s : /\ s.start_time < candidate.end_time
                                  /\ candidate.start_time < s.end_time))

\* check_resource_constraints
CheckResourceConstraints(manager, candidate, scheduled) ==
    IF manager = None THEN << >>
    ELSE AllConstraintErrors(manager[1], candidate.resource_constraints, scheduled)

-----------------------------------------------------------------------------
(* EnduranceBaseScheduler.check_task_constraints. *)

\* The first scheduled entry whose task_id is the target, or None.
RECURSIVE FindScheduled(_, _)
FindScheduled(scheduled, target_task_id) ==
    IF scheduled = << >> THEN None
    ELSE IF Head(scheduled).task_id = target_task_id THEN Some(Head(scheduled))
    ELSE FindScheduled(Tail(scheduled), target_task_id)

UnscheduledError(id, target_task_id) ==
    "Task " \o id \o " depends on unscheduled task " \o target_task_id
CannotStartError(id, target_task_id) ==
    "Task " \o id \o " cannot start after task " \o target_task_id \o " ends"
NotContainedError(id, target_task_id) ==
    "Task " \o id \o " is not contained within task " \o target_task_id

\* Mutant of StartsBeforeEnd: <= in place of <.
StartsBeforeOrAtEnd(start_time, target_end_time) == start_time <= target_end_time

\* task.start_time < target_task["end_time"]
StartsBeforeEnd(start_time, target_end_time) == start_time < target_end_time

\* task.start_time < target_task["start_time"] or
\* task.end_time > target_task["end_time"]
NotContained(candidate, target_task) ==
    \/ candidate.start_time < target_task.start_time
    \/ candidate.end_time > target_task.end_time

\* The errors one task constraint adds; a constraint of another type adds
\* none.
TaskConstraintErrors(candidate, constraint, scheduled) ==
    LET target_task == FindScheduled(scheduled, constraint.target_task_id)
    IN  IF constraint.constraint_type = "start_after_end"
        THEN IF target_task = None
             THEN <<UnscheduledError(candidate.id, constraint.target_task_id)>>
             ELSE IF StartsBeforeEnd(candidate.start_time, target_task[1].end_time)
             THEN <<CannotStartError(candidate.id, constraint.target_task_id)>>
             ELSE << >>
        ELSE IF constraint.constraint_type = "contained"
        THEN IF target_task = None
             THEN <<UnscheduledError(candidate.id, constraint.target_task_id)>>
             ELSE IF NotContained(candidate, target_task[1])
             THEN <<NotContainedError(candidate.id, constraint.target_task_id)>>
             ELSE << >>
        ELSE << >>

RECURSIVE AllTaskConstraintErrors(_, _, _)
AllTaskConstraintErrors(candidate, constraints, scheduled) ==
    IF constraints = << >> THEN << >>
    ELSE TaskConstraintErrors(candidate, Head(constraints), scheduled)
         \o AllTaskConstraintErrors(candidate, Tail(constraints), scheduled)

\* check_task_constraints
CheckTaskConstraints(candidate, scheduled) ==
    AllTaskConstraintErrors(candidate, candidate.task_constraints, scheduled)

-----------------------------------------------------------------------------
(* What a call of the feasibility checker leaves in its arguments. *)

\* Mutant of AfterGet: scheduled.setdefault("resource_allocations", {}).
AfterSetDefault(scheduled) ==
    IF "resource_allocations" \in DOMAIN scheduled THEN scheduled
    ELSE scheduled @@ ("resource_allocations" :> << >>)

\* A scheduled entry after scheduled.get("resource_allocations", {}): get
\* reads the entry and stores nothing in it.
AfterGet(scheduled) == scheduled

\* The scheduled_tasks list after the usage loop of
\* check_resource_constraints: current_usage is a local dict.
ScheduledAfterUsage(manager, scheduled) ==
    IF manager = None THEN scheduled
    ELSE [i \in DOMAIN scheduled |-> AfterGet(scheduled[i])]

-----------------------------------------------------------------------------
(* Specification SpecChecker: the feasibility checker on a candidate task  *)
(* and the tasks scheduled so far.                                         *)

\* "E1" is registered with the manager, "E9" is not.
EnduranceResource(id, available, maximum) ==
    [id |-> id, available_capacity |-> available, max_capacity |-> maximum]

EnduranceManagers ==
    { ("E1" :> EnduranceResource("E1", 10, 10)),
      ("E1" :> EnduranceResource("E1", 6, 10)) }

ResourceConstraints ==
    [resource_id : {"E1", "E9"}, min_amount : {4, 6}, max_amount : {6, 12}]

\* The task constraints of the candidate: "S1" is the first scheduled task,
\* "S2" the second; either is unscheduled when the list is shorter.
TaskConstraints ==
    [constraint_type : {"start_after_end", "contained"},
     target_task_id : {"S1", "S2"}]

\* Time windows [start, end) on 0..MaxTime.
Windows == {w \in (0..MaxTime) \X (0..MaxTime) : w[1] < w[2]}

\* The windows of the scheduled tasks a task constraint may target.
ScheduledWindows == {<<0, 1>>, <<1, 2>>, <<0, 3>>}

\* The scheduled entries: with or without the "resource_allocations" key.
ScheduledEntries ==
    { << >> } \cup { <<("E1" :> amount)>> : amount \in {4, 6} } \cup { <<("E9" :> 4)>> }

ScheduledEntry(i, window, allocations) ==
    LET placed == [task_id |-> "S" \o ToString(i), start_time |-> window[1],
                   end_time |-> window[2]]
    IN  IF allocations = None THEN placed
        ELSE placed @@ ("resource_allocations" :> allocations[1])

EnduranceCandidate(window, task_constraints, resource_constraints) ==
    [id |-> "C", start_time |-> window[1], end_time |-> window[2],
     task_constraints |-> task_constraints,
     resource_constraints |-> resource_constraints]

\* A candidate with resource constraints among scheduled tasks that hold
\* resources.
InitResourceCase ==
    /\ \E n \in 0..MaxConstraints : \E c \in [1..n -> ResourceConstraints] :
          task = EnduranceCandidate(<<1, 2>>, << >>, c)
    /\ \E n \in 0..MaxScheduled : \E st \in [1..n -> ScheduledEntries] :
          scheduled_tasks = [i \in 1..n |-> ScheduledEntry(i, <<0, 1>>, st[i])]

\* A candidate with task constraints among scheduled tasks placed in time.
InitTaskCase ==
    /\ \E w \in Windows :
         \E n \in 1..MaxConstraints : \E c \in [1..n -> TaskConstraints] :
            task = EnduranceCandidate(w, c, << >>)
    /\ \E n \in 0..MaxScheduled : \E sw \in [1..n -> ScheduledWindows] :
          scheduled_tasks = [i \in 1..n |-> ScheduledEntry(i, sw[i], None)]

InitChecker ==
    /\ pc = "ready"
    /\ resource_manager = None
    /\ InitResourceCase \/ InitTaskCase
    /\ errors = << >>
    /\ method = "none"
    /\ IdleMILP
    /\ IdleValidate
    /\ IdleConcurrent

\* EnduranceBaseScheduler.set_managers
SetEnduranceManagers ==
    /\ pc = "ready"
    /\ \E manager \in EnduranceManagers : resource_manager' = Some(manager)
    /\ UNCHANGED <<pc, milpVars, validateVars, checkerVars, concurrentVars>>

\* A first call returns; a call after it repeats the check.
AfterCall == IF pc = "ready" THEN "returned" ELSE "repeated"

CheckTaskConstraintsCall ==
    /\ pc \in {"ready", "returned"}
    /\ errors' = CheckTaskConstraints(task, scheduled_tasks)
    /\ method' = "check_task_constraints"
    /\ pc' = AfterCall
    /\ UNCHANGED <<task, scheduled_tasks, resource_manager, milpVars, validateVars,
                   concurrentVars>>

CheckResourceConstraintsCall ==
    /\ pc \in {"ready", "returned"}
    /\ errors' = CheckResourceConstraints(resource_manager, task, scheduled_tasks)
    /\ scheduled_tasks' = ScheduledAfterUsage(resource_manager, scheduled_tasks)
    /\ method' = "check_resource_constraints"
    /\ pc' = AfterCall
    /\ UNCHANGED <<task, resource_manager, milpVars, validateVars,
                   concurrentVars>>

NextChecker ==
    \/ SetEnduranceManagers
    \/ CheckTaskConstraintsCall
    \/ CheckResourceConstraintsCall

SpecChecker == InitChecker /\ [][NextChecker]_vars

\* The checker method m has returned `errors`.
ReturnedFrom(m) == pc \in {"returned", "repeated"} /\ method = m

\* The amount of a resource allocated over the first n scheduled tasks.
RECURSIVE AllocatedUpTo(_, _)
AllocatedUpTo(resource_id, n) ==
    IF n = 0 THEN 0
    ELSE AllocatedUpTo(resource_id, n - 1)
         + (IF /\ "resource_allocations" \in DOMAIN scheduled_tasks[n]
               /\ resource_id \in DOMAIN scheduled_tasks[n].resource_allocations
            THEN scheduled_tasks[n].resource_allocations[resource_id]
            ELSE 0)

Allocated(resource_id) == AllocatedUpTo(resource_id, Len(scheduled_tasks))

ErrorSet == {errors[k] : k \in Indexes(errors)}

\* The condition under which a constraint is to be reported.
Infeasible(c) ==
    LET manager == resource_manager[1]
    IN  \/ c.resource_id \notin DOMAIN manager
        \/ /\ c.resource_id \in DOMAIN manager
           /\ \/ c.min_amount > manager[c.resource_id].available_capacity
                                    - Allocated(c.resource_id)
              \/ c.max_amount > manager[c.resource_id].max_capacity

Placed(id) ==
    {scheduled_tasks[k] : k \in {n \in Indexes(scheduled_tasks) :
                                    scheduled_tasks[n].task_id = id}}

\* A task constraint of the candidate holds of the scheduled tasks.
Satisfied(c) ==
    \E target \in Placed(c.target_task_id) :
        IF c.constraint_type = "start_after_end"
        THEN task.start_time >= target.end_time
        ELSE /\ target.start_time <= task.start_time
             /\ task.end_time <= target.end_time

Violated == {k \in Indexes(task.task_constraints) : ~Satisfied(task.task_constraints[k])}

\* C11: check_task_constraints returns an empty list exactly when, for every
\* start_after_end(target) constraint of the candidate, the target is
\* scheduled and the candidate starts at or after the target's end, and for
\* every contained(target) constraint the target is scheduled and the
\* candidate's [start, end) lies within the target's; every violated
\* constraint or unscheduled target adds exactly one error, which names the
\* candidate and the target.
C11_TaskErrorsExact ==
    ReturnedFrom("check_task_constraints") =>
        /\ (errors = << >>) <=> (Violated = {})
        /\ Len(errors) = Cardinality(Violated)
        /\ \A k \in Violated :
              LET c == task.task_constraints[k]
              IN  IF Placed(c.target_task_id) = {}
                  THEN UnscheduledError(task.id, c.target_task_id) \in ErrorSet
                  ELSE IF c.constraint_type = "start_after_end"
                  THEN CannotStartError(task.id, c.target_task_id) \in ErrorSet
                  ELSE NotContainedError(task.id, c.target_task_id) \in ErrorSet
        /\ \A e \in ErrorSet :
              \E k \in Violated :
                  LET c == task.task_constraints[k]
                  IN  e \in {UnscheduledError(task.id, c.target_task_id),
                             CannotStartError(task.id, c.target_task_id),
                             NotContainedError(task.id, c.target_task_id)}

\* The candidate [1, 2) must start after S1 [0, 3) and lie within S2, which
\* is not scheduled: two errors.
C11_Witness ==
    /\ ReturnedFrom("check_task_constraints")
    /\ task.start_time = 1 /\ task.end_time = 2
    /\ Len(scheduled_tasks) = 1
    /\ scheduled_tasks[1].end_time = 3
    /\ errors = <<CannotStartError("C", "S1"), UnscheduledError("C", "S2")>>

\* A step in which a checker method returns.
CheckerReturns == pc' \in {"returned", "repeated"} /\ pc' # pc

\* C13: a call of check_task_constraints or check_resource_constraints
\* leaves the scheduled-task list, the candidate, the resource manager and
\* the scheduler as they were, and a second call of the same method returns
\* the violation list of the first.
C13_CheckersLeaveArguments ==
    [][CheckerReturns =>
          /\ scheduled_tasks' = scheduled_tasks
          /\ task' = task
          /\ resource_manager' = resource_manager
          /\ scheduler' = scheduler
          /\ (method' = method => errors' = errors)]_vars

\* check_resource_constraints was called twice with a manager on a list with
\* an entry that has no "resource_allocations" key, and reported an error.
C13_Witness ==
    /\ pc = "repeated"
    /\ method = "check_resource_constraints"
    /\ resource_manager # None
    /\ \E k \in Indexes(scheduled_tasks) :
          "resource_allocations" \notin DOMAIN scheduled_tasks[k]
    /\ Allocated("E1") = 6
    /\ errors # << >>

-----------------------------------------------------------------------------
(* EnduranceBaseScheduler.validate_inputs.  An attribute of a task or of  *)
(* a resource is None or a number.                                         *)

InvalidWindowError(id) == "Task " \o id \o " has invalid time window"
InvalidDurationError(id) == "Task " \o id \o " has invalid duration constraints"
PreferredError(id) == "Task " \o id \o " preferred duration out of bounds"
ExceedsWindowError(id) == "Task " \o id \o " max duration exceeds time window"
\* f"Error validating task {task.id}: {str(e)}" for the TypeError of a
\* comparison with None.
ValidatingTaskError(id) == "Error validating task " \o id \o ": TypeError"
MissingCapacityError(id) == "Integer resource " \o id \o " missing max_capacity"
MissingInitialError(id) ==
    "Cumulative rate resource " \o id \o " missing initial_value"

\* task.max_duration > max_possible_duration
ExceedsWindow(max_duration, max_possible_duration) ==
    max_duration > max_possible_duration

\* Mutant of TaskErrors: the four checks form an if / elif chain, which
\* stops at the first defect.
TaskErrorsFirstOnly(t) ==
    IF t.start_time[1] >= t.end_time[1] THEN <<InvalidWindowError(t.id)>>
    ELSE IF t.min_duration[1] > t.max_duration[1]
    THEN <<InvalidDurationError(t.id)>>
    ELSE IF ~(/\ t.min_duration[1] <= t.preferred_duration[1]
              /\ t.preferred_duration[1] <= t.max_duration[1])
    THEN <<PreferredError(t.id)>>
    ELSE IF ExceedsWindow(t.max_duration[1], t.end_time[1] - t.start_time[1])
    THEN <<ExceedsWindowError(t.id)>>
    ELSE << >>

\* The body of the try block for one task: the four checks in order; a
\* comparison with None raises, and the except clause then adds one error
\* in place of the checks not yet made.
TaskErrors(t) ==
    LET window == IF t.start_time[1] >= t.end_time[1]
                  THEN <<InvalidWindowError(t.id)>> ELSE << >>
        bounds == IF t.min_duration[1] > t.max_duration[1]
                  THEN <<InvalidDurationError(t.id)>> ELSE << >>
        preferred == IF ~(/\ t.min_duration[1] <= t.preferred_duration[1]
                          /\ t.preferred_duration[1] <= t.max_duration[1])
                     THEN <<PreferredError(t.id)>> ELSE << >>
        fits == IF ExceedsWindow(t.max_duration[1], t.end_time[1] - t.start_time[1])
                THEN <<ExceedsWindowError(t.id)>> ELSE << >>
    IN  IF t.start_time = None \/ t.end_time = None
        THEN <<ValidatingTaskError(t.id)>>
        ELSE IF t.min_duration = None \/ t.max_duration = None
        THEN window \o <<ValidatingTaskError(t.id)>>
        ELSE IF t.preferred_duration = None
        THEN window \o bounds \o <<ValidatingTaskError(t.id)>>
        ELSE window \o bounds \o preferred \o fits

ResourceErrors(r) ==
    (IF r.resource_type = "integer" /\ r.max_capacity = None
     THEN <<MissingCapacityError(r.id)>> ELSE << >>)
    \o (IF r.resource_type = "cumulative_rate" /\ r.initial_value = None
        THEN <<MissingInitialError(r.id)>> ELSE << >>)

RECURSIVE AllTaskErrors(_)
AllTaskErrors(ts) ==
    IF ts = << >> THEN << >>
    ELSE TaskErrors(Head(ts)) \o AllTaskErrors(Tail(ts))

RECURSIVE AllResourceErrors(_)
AllResourceErrors(rs) ==
    IF rs = << >> THEN << >>
    ELSE ResourceErrors(Head(rs)) \o AllResourceErrors(Tail(rs))

\* validate_inputs
ValidateInputs(ts, rs) ==
    (IF ts = << >> THEN <<"No tasks provided">> ELSE << >>)
    \o (IF rs = << >> THEN <<"No resources provided">> ELSE << >>)
    \o AllTaskErrors(ts)
    \o AllResourceErrors(rs)

-----------------------------------------------------------------------------
(* Specification SpecInputs: validate_inputs on given tasks and resources. *)

EnduranceResourceIds == <<"E1", "E2">>

\* (start_time, end_time) of a task: [0, 2), [0, 4) and the invalid windows
\* [2, 2) and [3, 1).  validate_inputs tests `is None` on attributes of
\* resources only: the window and the durations of a task are numbers.
TaskWindows == {<<Some(0), Some(2)>>, <<Some(0), Some(4)>>, <<Some(2), Some(2)>>,
                <<Some(3), Some(1)>>}

EnduranceTasks ==
    [window : TaskWindows, min_duration : {Some(1), Some(3)},
     preferred_duration : {Some(2), Some(4)}, max_duration : {Some(2), Some(3)}]

EnduranceTask(id, shape) ==
    [id |-> id, start_time |-> shape.window[1], end_time |-> shape.window[2],
     min_duration |-> shape.min_duration,
     preferred_duration |-> shape.preferred_duration,
     max_duration |-> shape.max_duration]

EnduranceResources ==
    { [resource_type |-> "integer", max_capacity |-> None, initial_value |-> None],
      [resource_type |-> "integer", max_capacity |-> Some(10), initial_value |-> None],
      [resource_type |-> "cumulative_rate", max_capacity |-> None, initial_value |-> None],
      [resource_type |-> "cumulative_rate", max_capacity |-> None, initial_value |-> Some(0)] }

InitInputs ==
    /\ pc = "ready"
    /\ scheduler = "EnduranceBaseScheduler"
    /\ \E n \in 0..Len(TaskIds) : \E shape \in [1..n -> EnduranceTasks] :
          tasks = [i \in 1..n |-> EnduranceTask(TaskIds[i], shape[i])]
    /\ \E n \in 0..Len(EnduranceResourceIds) : \E shape \in [1..n -> EnduranceResources] :
          resources = [i \in 1..n |-> shape[i] @@ ("id" :> EnduranceResourceIds[i])]
    /\ solver = NotAsked
    /\ clock = << >>
    /\ modelBuilt = FALSE
    /\ solverCalled = FALSE
    /\ time_horizon = None
    /\ result = NoResult
    /\ resource_manager = None
    /\ IdleValidate
    /\ IdleChecker
    /\ IdleConcurrent

ValidateInputsCall ==
    /\ pc = "ready"
    /\ errors' = ValidateInputs(tasks, resources)
    /\ method' = "validate_inputs"
    /\ pc' = "returned"
    /\ UNCHANGED <<scheduler, tasks, resources, solver, clock, modelBuilt,
                   solverCalled, time_horizon, result, resource_manager, task,
                   scheduled_tasks, validateVars, concurrentVars>>

NextInputs == ValidateInputsCall

SpecInputs == InitInputs /\ [][NextInputs]_vars

\* Each of the four defects of a task.
WindowDefect(t) == t.start_time[1] >= t.end_time[1]
DurationDefect(t) == t.min_duration[1] > t.max_duration[1]
PreferredDefect(t) ==
    \/ t.preferred_duration[1] < t.min_duration[1]
    \/ t.preferred_duration[1] > t.max_duration[1]
ExceedsDefect(t) == t.max_duration[1] > t.end_time[1] - t.start_time[1]

\* C12: validate_inputs returns the violations of all tasks and all
\* resources: for each task, an invalid window, min_duration > max_duration,
\* a preferred duration out of bounds and max_duration beyond the window
\* length are each reported, by an error naming the task, exactly when they
\* hold and whatever the other checks find; for each resource a missing
\* max_capacity or initial_value is reported; a task whose max_duration
\* exceeds its window length yields an error naming it.
C12_AllViolationsReported ==
    (pc = "returned" /\ method = "validate_inputs") =>
        /\ \A i \in Indexes(tasks) :
              LET t == tasks[i]
              IN  /\ WindowDefect(t) <=> InvalidWindowError(t.id) \in ErrorSet
                  /\ DurationDefect(t) <=> InvalidDurationError(t.id) \in ErrorSet
                  /\ PreferredDefect(t) <=> PreferredError(t.id) \in ErrorSet
                  /\ ExceedsDefect(t) <=> ExceedsWindowError(t.id) \in ErrorSet
        /\ \A i \in Indexes(resources) :
              LET r == resources[i]
              IN  /\ (r.resource_type = "integer" /\ r.max_capacity = None)
                        <=> MissingCapacityError(r.id) \in ErrorSet
                  /\ (r.resource_type = "cumulative_rate" /\ r.initial_value = None)
                        <=> MissingInitialError(r.id) \in ErrorSet
        /\ (tasks = << >>) <=> ("No tasks provided" \in ErrorSet)
        /\ (resources = << >>) <=> ("No resources provided" \in ErrorSet)

\* Task A has all four defects, task B has max_duration 3 beyond its window
\* [0, 2), and the resource lacks its max_capacity: six errors, in order.
C12_Witness ==
    /\ pc = "returned" /\ method = "validate_inputs"
    /\ errors = <<InvalidWindowError("A"), InvalidDurationError("A"),
                  PreferredError("A"), ExceedsWindowError("A"),
                  ExceedsWindowError("B"), MissingCapacityError("E1")>>

-----------------------------------------------------------------------------
(* Properties of the decoders, checked under Spec and SpecHorizon. *)

\* The slots t with x[i, j, t] > 0.5 in the solved values.
Hits(i, j) == {u[3] : u \in {v \in solver.x : v[1] = i /\ v[2] = j}}

\* The robots that have any x[i, j, t] > 0.5.
Assigned(i) == {j \in Indexes(Robots(resources)) : Hits(i, j) # {}}

\* The position of a task id in the input list.
IndexOf(id) == CHOOSE i \in Indexes(tasks) : tasks[i].id = id

\* C14: the record a decoder emits for a task is at the lowest robot index
\* that has any x[i, j, t] > 0.5 and, for that robot, at the lowest such slot
\* t, and the records are emitted in input task order.
C14_DecoderTieBreak ==
    Succeeded =>
        /\ \A k \in Indexes(result.schedule) :
              LET r == result.schedule[k]
                  i == IndexOf(r.task_id)
              IN  /\ Assigned(i) # {}
                  /\ r.robot_id = Robots(resources)[MinOf(Assigned(i))].id
                  /\ r.start_time = clock[i] + SecondsPerMinute
                                        * MinOf(Hits(i, MinOf(Assigned(i))))
        /\ \A k \in Indexes(result.schedule) : \A l \in Indexes(result.schedule) :
              k < l => IndexOf(result.schedule[k].task_id)
                          < IndexOf(result.schedule[l].task_id)

\* An assignment came back from the solver.
Solved == pc = "returned" /\ solver.outcome \in SolvedOutcomes

\* C15: for every record of a produced schedule, end minus start is the
\* duration of the task it was decoded from, and is within one slot of the
\* span z[i] - y[i] that the model fixed for that task.
C15_DurationLinkage ==
    Succeeded =>
        \A r \in Records :
            LET i == IndexOf(r.task_id)
                span == (solver.z[i] - solver.y[i]) * SecondsPerMinute
            IN  /\ r.end_time - r.start_time = tasks[i].duration
                /\ r.end_time - r.start_time - span < SecondsPerMinute
                /\ span - (r.end_time - r.start_time) < SecondsPerMinute

\* A task of 90 seconds, one slot in the model, has a record.
C15_Witness ==
    /\ Succeeded
    /\ \E r \in Records :
          /\ tasks[IndexOf(r.task_id)].duration = 90
          /\ solver.z[IndexOf(r.task_id)] - solver.y[IndexOf(r.task_id)] = 1
          /\ r.end_time - r.start_time = 90

\* C16: every assignment that satisfies the model of
\* SimpleMILPScheduler.schedule has z[i] <= makespan for every task i, and
\* the objective_value of a SUCCESS is at least every z[i].
C16_MakespanBound ==
    (IsSimple /\ Solved) =>
        /\ \A i \in Indexes(tasks) : solver.z[i] <= solver.makespan
        /\ Succeeded =>
              \A i \in Indexes(tasks) : result.objective_value[1] >= solver.z[i]

\* C17: when the solver reports optimal or feasible and some input task has
\* no x variable set, SimpleMILPScheduler.schedule leaves the task out of
\* the schedule and returns status PARTIAL, not FAILED and not SUCCESS.
C17_PartialStatus ==
    (IsSimple /\ Solved /\ \E i \in Indexes(tasks) : Assigned(i) = {}) =>
        /\ \A i \in Indexes(tasks) :
              Assigned(i) = {} => \A r \in Records : r.task_id # tasks[i].id
        /\ result.status = "partial"

\* C18: every assignment that satisfies the model of
\* SimpleMILPScheduler.schedule has, for every task i and every slot t of
\* the horizon, at most one robot j with x[i, j, t] = 1.
C18_SingleAssignment ==
    (IsSimple /\ Solved) =>
        \A u \in solver.x :
            Cardinality({j \in Indexes(Robots(resources)) :
                            <<u[1], j, u[3]>> \in solver.x}) <= 1

\* C19: every assignment that satisfies the model of either scheduler class
\* has y[i] <= y[j] for every two distinct tasks with
\* priority(i) > priority(j).
C19_PriorityOrder ==
    Solved =>
        \A i \in Indexes(tasks) : \A j \in Indexes(tasks) :
            (i # j /\ tasks[i].priority > tasks[j].priority)
                => solver.y[i] <= solver.y[j]

-----------------------------------------------------------------------------
(* Specification SpecTimeHorizon: _calculate_time_horizon on task lists    *)
(* of short and long durations.                                            *)

HorizonDurations == {0, 30, 59, 60, 90, 3600, 3999, 4000, 4040, 40080}

InitTimeHorizon ==
    /\ scheduler \in SchedulerClasses
    /\ \E n \in 0..Len(TaskIds) : \E d \in [1..n -> HorizonDurations] :
          tasks = TaskList(d, [i \in 1..n |-> 1], [i \in 1..n |-> {}])
    /\ resources = << >>
    /\ pc = "ready"
    /\ solver = NotAsked
    /\ clock = << >>
    /\ modelBuilt = FALSE
    /\ solverCalled = FALSE
    /\ time_horizon = None
    /\ result = NoResult
    /\ resource_manager = None
    /\ IdleValidate
    /\ IdleChecker
    /\ IdleConcurrent

CalculateTimeHorizonCall ==
    /\ pc = "ready"
    /\ time_horizon' = Some(CalculateTimeHorizon(tasks))
    /\ pc' = "returned"
    /\ UNCHANGED <<scheduler, tasks, resources, solver, clock, modelBuilt,
                   solverCalled, result, resource_manager, validateVars,
                   checkerVars, concurrentVars>>

NextTimeHorizon == CalculateTimeHorizonCall

SpecTimeHorizon == InitTimeHorizon /\ [][NextTimeHorizon]_vars

\* Tasks one after another from slot 0: y[i] is the sum of the slot
\* durations before task i.
RECURSIVE SerialStart(_)
SerialStart(i) ==
    IF i = 1 THEN 0 ELSE SerialStart(i - 1) + SlotDuration(tasks[i - 1])

TotalSeconds == SumSeq([i \in Indexes(tasks) |-> tasks[i].duration])

\* C20: the horizon T that _calculate_time_horizon returns is the larger of
\* floor(1.5 * total seconds / 60) and 100; it is at least the sum of the
\* slot durations int(seconds / 60) of the tasks, and the tasks run one
\* after another from slot 0 have every y in [0, T - 1] and every z in
\* [0, T].
C20_HorizonFitsSerial ==
    time_horizon # None =>
        LET T == time_horizon[1]
        IN  /\ T >= MinHorizon
            /\ 2 * SecondsPerMinute * T <= Max(3 * TotalSeconds,
                                               2 * SecondsPerMinute * MinHorizon)
            /\ 3 * TotalSeconds < 2 * SecondsPerMinute * (T + 1)
            /\ T >= SumSeq([i \in Indexes(tasks) |-> SlotDuration(tasks[i])])
            /\ \A i \in Indexes(tasks) :
                  /\ SerialStart(i) \in 0..(T - 1)
                  /\ SerialStart(i) + SlotDuration(tasks[i]) \in 0..T

\* Two tasks whose horizon is above the minimum of 100 slots.
C20_Witness ==
    /\ time_horizon = Some(1003)
    /\ Len(tasks) = 2
    /\ SerialStart(2) = 668

-----------------------------------------------------------------------------
(* Properties of validate_schedule without a manager or a known resource. *)

UsedIds == UNION {DOMAIN r.resources : r \in ScheduledRecords}

\* Two different records of the schedule use resource id at overlapping times.
OverlappingUsages(id) ==
    \E i \in Indexes(schedule), j \in Indexes(schedule) :
        /\ i # j
        /\ id \in DOMAIN schedule[i].resources \cap DOMAIN schedule[j].resources
        /\ schedule[i].start_time < schedule[j].end_time
        /\ schedule[j].start_time < schedule[i].end_time

\* C24: validate_schedule returns True for every schedule when no resource
\* manager is set and when the manager knows none of the resource ids the
\* schedule uses; whenever it returns False, some resource known to the
\* manager has two usages that overlap in time.
C24_ValidateNeedsKnownResource ==
    pc = "returned" =>
        /\ resource_manager = None => valid = TRUE
        /\ (/\ resource_manager # None
            /\ UsedIds \cap DOMAIN resource_manager[1] = {}) => valid = TRUE
        /\ valid = FALSE =>
               /\ resource_manager # None
               /\ \E id \in UsedIds \cap DOMAIN resource_manager[1] :
                      OverlappingUsages(id)

\* Without a manager, two overlapping usages of 6 of "R1" pass.
C24_Witness ==
    /\ pc = "returned"
    /\ resource_manager = None
    /\ valid = TRUE
    /\ Len(schedule) = 2
    /\ OverlappingUsages("R1")
    /\ schedule[1].resources["R1"] + schedule[2].resources["R1"] > 10

-----------------------------------------------------------------------------
(* check_resource_constraints and the time intervals of the scheduled tasks. *)

\* No scheduled task shares an instant with the window of the candidate.
DisjointInTime ==
    \A k \in Indexes(scheduled_tasks) :
        \/ scheduled_tasks[k].end_time <= task.start_time
        \/ task.end_time <= scheduled_tasks[k].start_time

\* C25: check_resource_constraints returns an empty list when no resource
\* manager is set; with a manager, a candidate whose window is disjoint in
\* time from every scheduled task is still reported when its min_amount of a
\* known resource exceeds available_capacity minus the allocations of all
\* scheduled tasks.
C25_AllocationsCountedWhateverTheTime ==
    ReturnedFrom("check_resource_constraints") =>
        /\ resource_manager = None => errors = << >>
        /\ (resource_manager # None /\ DisjointInTime) =>
              \A k \in Indexes(task.resource_constraints) :
                  LET c == task.resource_constraints[k]
                      manager == resource_manager[1]
                  IN  (/\ c.resource_id \in DOMAIN manager
                       /\ c.min_amount > manager[c.resource_id].available_capacity
                                             - Allocated(c.resource_id))
                        => MinimumError(c.resource_id, c.min_amount) \in ErrorSet

\* Two tasks scheduled on [0, 1) hold 0.4 each of a resource of 1.0; the
\* candidate on [1, 2) asks for 0.6 and is reported.
C25_Witness ==
    /\ ReturnedFrom("check_resource_constraints")
    /\ resource_manager = Some("E1" :> EnduranceResource("E1", 10, 10))
    /\ Len(scheduled_tasks) = 2
    /\ Allocated("E1") = 8
    /\ DisjointInTime
    /\ \E k \in Indexes(task.resource_constraints) :
          /\ task.resource_constraints[k].resource_id = "E1"
          /\ task.resource_constraints[k].min_amount = 6
    /\ MinimumError("E1", 6) \in ErrorSet

-----------------------------------------------------------------------------
(* Dependencies on ids that name no task of the input list. *)

TaskIdsOf(ts) == {ts[k].id : k \in Indexes(ts)}

HasUnknownDependency(ts) ==
    \E i \in Indexes(ts) : ts[i].dependencies \ TaskIdsOf(ts) # {}

\* The task list with every dependency on an unknown id removed.
WithoutUnknownDependencies(ts) ==
    [i \in DOMAIN ts |->
        [ts[i] EXCEPT !.dependencies = ts[i].dependencies \cap TaskIdsOf(ts)]]

\* What schedule() of the class returns on the list ts for the solver run
\* and the clock readings of the call made.
ResultOn(ts) ==
    IF IsSimple THEN SimpleSchedule(ts, resources, solver, clock).result
    ELSE MILPSchedule(ts, resources, solver, clock).result

\* C23: a dependency id that names no task of the input list adds no
\* constraint and causes no error: schedule() returns what it returns on the
\* same list without that dependency, every assignment the solver hands back
\* satisfies the model of that list, and the assignments that satisfy the
\* model built are those that satisfy the model of that list (the two sets
\* are compared once per input, in the state where the solver ran out of
\* time and handed back no assignment).
C23_UnknownDependencyIgnored ==
    (Called /\ HasUnknownDependency(tasks)) =>
        /\ pc = "returned"
        /\ result = ResultOn(WithoutUnknownDependencies(tasks))
        /\ (modelBuilt /\ solver.outcome \in SolvedOutcomes) =>
              Model(scheduler, WithoutUnknownDependencies(tasks),
                    Robots(resources), time_horizon[1],
                    [x |-> solver.x, y |-> solver.y, z |-> solver.z,
                     makespan |-> solver.makespan])
        /\ (modelBuilt /\ solver.outcome = "NOT_SOLVED") =>
              ExploredAssignments(scheduler, tasks, Robots(resources),
                                  time_horizon[1])
              = ExploredAssignments(scheduler, WithoutUnknownDependencies(tasks),
                                    Robots(resources), time_horizon[1])

\* B depends on "X" only, and the solver places B no later than A ends.
C23_Witness ==
    /\ Succeeded
    /\ Len(tasks) = 2
    /\ tasks[2].dependencies = {UnknownTaskId}
    /\ solver.y[2] < solver.z[1]
    /\ Len(result.schedule) = 2

-----------------------------------------------------------------------------
(* BaseScheduler.get_schedule_statistics.  Times are whole seconds. *)

\* The dict returned for an empty schedule.
EmptyStatistics ==
    [total_tasks |-> 0, total_duration |-> 0, makespan |-> 0,
     resource_utilization |-> << >>, robot_utilization |-> << >>]

\* (task.end_time - task.start_time).total_seconds()
Seconds(st) == st.end_time - st.start_time

\* d[key] = amount: the entry is replaced, nothing is added up.
AccumulateAssign(d, key, amount) ==
    [k \in DOMAIN d \cup {key} |-> IF k = key THEN amount ELSE d[k]]

\* if key not in d: d[key] = 0, then d[key] += amount
Accumulate(d, key, amount) ==
    [k \in DOMAIN d \cup {key} |->
        (IF k \in DOMAIN d THEN d[k] ELSE 0) + (IF k = key THEN amount ELSE 0)]

\* The inner loop over task.resources.items(); the keys of a dict differ.
RECURSIVE AccumulateResources(_, _, _)
AccumulateResources(d, st, ids) ==
    IF ids = {} THEN d
    ELSE LET resource_id == CHOOSE id \in ids : TRUE
         IN  AccumulateResources(
                 Accumulate(d, resource_id, st.resources[resource_id] * Seconds(st)),
                 st, ids \ {resource_id})

\* resource_utilization after the loop over the schedule.
RECURSIVE ResourceUtilization(_)
ResourceUtilization(sched) ==
    IF sched = << >> THEN << >>
    ELSE LET st == sched[Len(sched)]
         IN  AccumulateResources(ResourceUtilization(SubSeq(sched, 1, Len(sched) - 1)),
                                 st, DOMAIN st.resources)

\* robot_utilization after the loop over the schedule.
RECURSIVE RobotUtilization(_)
RobotUtilization(sched) ==
    IF sched = << >> THEN << >>
    ELSE LET st == sched[Len(sched)]
         IN  Accumulate(RobotUtilization(SubSeq(sched, 1, Len(sched) - 1)),
                        st.robot_id, Seconds(st))

\* get_schedule_statistics
GetScheduleStatistics(sched) ==
    IF sched = << >> THEN EmptyStatistics
    ELSE [total_tasks |-> Len(sched),
          total_duration |-> SumSeq([k \in Indexes(sched) |-> Seconds(sched[k])]),
          makespan |-> MaxOf({sched[k].end_time : k \in Indexes(sched)})
                         - MinOf({sched[k].start_time : k \in Indexes(sched)}),
          resource_utilization |-> ResourceUtilization(sched),
          robot_utilization |-> RobotUtilization(sched)]

-----------------------------------------------------------------------------
(* Specification SpecStatistics: get_schedule_statistics on a given        *)
(* schedule of up to three tasks on the robots "R1" and "R9".              *)

GetScheduleStatisticsCall ==
    /\ pc = "ready"
    /\ statistics' = Some(GetScheduleStatistics(schedule))
    /\ pc' = "returned"
    /\ UNCHANGED <<schedule, dependencies, valid, resource_manager, milpVars,
                   checkerVars, concurrentVars>>

NextStatistics == GetScheduleStatisticsCall

SpecStatistics == InitValidate /\ [][NextStatistics]_vars

\* The seconds of the first n records that run on the robot.
RECURSIVE RobotSecondsUpTo(_, _)
RobotSecondsUpTo(robot_id, n) ==
    IF n = 0 THEN 0
    ELSE RobotSecondsUpTo(robot_id, n - 1)
         + (IF schedule[n].robot_id = robot_id
            THEN schedule[n].end_time - schedule[n].start_time ELSE 0)

\* The seconds of the first n records.
RECURSIVE SecondsUpTo(_)
SecondsUpTo(n) ==
    IF n = 0 THEN 0
    ELSE SecondsUpTo(n - 1) + schedule[n].end_time - schedule[n].start_time

\* The sum of the values of a dict over the given keys.
RECURSIVE SumOfValues(_, _)
SumOfValues(d, keys) ==
    IF keys = {} THEN 0
    ELSE LET k == CHOOSE key \in keys : TRUE
         IN  d[k] + SumOfValues(d, keys \ {k})

\* C21: for a non-empty schedule get_schedule_statistics returns total_tasks
\* = the number of records, makespan = latest end minus earliest start,
\* total_duration = the sum of end - start over the records, and a
\* robot_utilization that has one entry per robot of the schedule, the
\* seconds of its records, and whose values sum to total_duration; for an
\* empty schedule it returns zeros and empty utilization maps.
C21_StatisticsOfSchedule ==
    statistics # None =>
        LET s == statistics[1]
        IN  IF schedule = << >>
            THEN /\ s.total_tasks = 0 /\ s.total_duration = 0 /\ s.makespan = 0
                 /\ DOMAIN s.resource_utilization = {}
                 /\ DOMAIN s.robot_utilization = {}
            ELSE /\ s.total_tasks = Len(schedule)
                 /\ \E last \in ScheduledRecords, first \in ScheduledRecords :
                       /\ \A r \in ScheduledRecords :
                             /\ r.end_time <= last.end_time
                             /\ first.start_time <= r.start_time
                       /\ s.makespan = last.end_time - first.start_time
                 /\ s.total_duration = SecondsUpTo(Len(schedule))
                 /\ DOMAIN s.robot_utilization
                        = {r.robot_id : r \in ScheduledRecords}
                 /\ \A id \in DOMAIN s.robot_utilization :
                       s.robot_utilization[id] = RobotSecondsUpTo(id, Len(schedule))
                 /\ SumOfValues(s.robot_utilization, DOMAIN s.robot_utilization)
                        = s.total_duration

\* Three records, two of them on "R1", that overlap: the makespan is
\* shorter than the total duration.
C21_Witness ==
    /\ statistics # None
    /\ Len(schedule) = 3
    /\ schedule[1].robot_id = "R1"
    /\ schedule[2].robot_id = "R9"
    /\ schedule[3].robot_id = "R1"
    /\ statistics[1].robot_utilization["R1"] = 4
    /\ statistics[1].robot_utilization["R9"] = 2
    /\ statistics[1].total_duration = 6
    /\ statistics[1].makespan = 3

-----------------------------------------------------------------------------
(* Specification SpecConcurrent: two schedule() calls in flight at once,   *)
(* on one scheduler object or on two, over the same task and resource      *)
(* lists.  A call takes three steps: it checks its inputs and builds its   *)
(* model, the solver runs, it decodes the solved values and returns.       *)

CallIds == {1, 2}

\* The places solved values can be kept in: the locals of each call and
\* the attributes of each scheduler object.
StoreKeys == {"call1", "call2", "object1", "object2"}

\* The solver and the variable maps kept in self.solver_instance.
FrameOnSelf(c) == "object" \o ToString(calls[c].object)

\* solver, x, y, z (SimpleMILPScheduler) and model, variables
\* (MILPScheduler) are locals of the call.
Frame(c) == "call" \o ToString(c)

\* What schedule() returns for a solver run and clock readings.
ScheduleResultFor(run, now) ==
    IF scheduler = "SimpleMILPScheduler"
    THEN SimpleSchedule(tasks, resources, run, now).result
    ELSE MILPSchedule(tasks, resources, run, now).result

\* The call ends before a solver is created.
EndsEarly ==
    NothingToSchedule(tasks, resources) \/ Len(Robots(resources)) = 0

\* The resource lists of the two calls: none, no robot, one robot.
ConcurrentResourceLists == {rs \in ResourceLists : Len(rs) <= 1}

InitConcurrent ==
    /\ scheduler \in SchedulerClasses
    /\ \E n \in 0..1 : \E d \in [1..n -> Durations] :
          tasks = TaskList(d, [i \in 1..n |-> 1], [i \in 1..n |-> {}])
    /\ resources \in ConcurrentResourceLists
    /\ \E object \in {<<1, 1>>, <<1, 2>>} :
          calls = [c \in CallIds |->
                     [object |-> object[c], pc |-> "ready", run |-> NotAsked,
                      now |-> << >>, overlapped |-> FALSE, result |-> NoResult]]
    /\ store = [k \in StoreKeys |-> NotAsked]
    /\ pc = "ready"
    /\ solver = NotAsked
    /\ clock = << >>
    /\ modelBuilt = FALSE
    /\ solverCalled = FALSE
    /\ time_horizon = None
    /\ result = NoResult
    /\ resource_manager = None
    /\ IdleValidate
    /\ IdleChecker

\* Entry of schedule() up to the model: inputs are read, nothing is written
\* outside the call.
ScheduleBegin(c) ==
    /\ calls[c].pc = "ready"
    /\ calls' = [calls EXCEPT ![c] =
                   IF EndsEarly
                   THEN [@ EXCEPT !.pc = "returned",
                                  !.result = ScheduleResultFor(NotAsked, << >>)]
                   ELSE [@ EXCEPT !.pc = "solving"]]
    /\ UNCHANGED <<store, pc, resource_manager, milpVars, validateVars, checkerVars>>

\* solver.Solve() / model.solve(): the solved values land where the call
\* keeps its solver and variables.
ScheduleSolve(c) ==
    /\ calls[c].pc = "solving"
    /\ \E run \in SolverRuns(scheduler, tasks, Robots(resources),
                             CalculateTimeHorizon(tasks)) :
          /\ store' = [store EXCEPT ![Frame(c)] = run]
          /\ calls' = [calls EXCEPT ![c] =
                         [@ EXCEPT !.pc = "solved", !.run = run,
                                   !.overlapped =
                                       \E o \in CallIds \ {c} :
                                           calls[o].pc \in {"solving", "solved"}]]
    /\ UNCHANGED <<pc, resource_manager, milpVars, validateVars, checkerVars>>

\* The decoder reads the solved values and the call returns.
ScheduleExtract(c) ==
    /\ calls[c].pc = "solved"
    /\ \E now \in Clocks(Len(tasks)) :
          calls' = [calls EXCEPT ![c] =
                      [@ EXCEPT !.pc = "returned", !.now = now,
                                !.result = ScheduleResultFor(store[Frame(c)], now)]]
    /\ UNCHANGED <<store, pc, resource_manager, milpVars, validateVars, checkerVars>>

NextConcurrent ==
    \E c \in CallIds :
        \/ ScheduleBegin(c)
        \/ ScheduleSolve(c)
        \/ ScheduleExtract(c)

SpecConcurrent == InitConcurrent /\ [][NextConcurrent]_vars

\* C22: two schedule() calls that run concurrently, on the same scheduler
\* object or on different ones, share no mutable state: under every
\* interleaving a call that has returned returned what schedule() returns
\* alone for the run its own solver made and the clock it read, no attribute
\* of a scheduler object is written, and the task and resource lists stay
\* as they were.
C22_ConcurrentCallsIndependent ==
    /\ [](/\ \A c \in CallIds :
              calls[c].pc = "returned" =>
                  calls[c].result = ScheduleResultFor(calls[c].run, calls[c].now)
          /\ \A k \in {"object1", "object2"} : store[k] = NotAsked)
    /\ [][/\ tasks' = tasks
          /\ resources' = resources
          /\ scheduler' = scheduler]_vars

\* Both calls ran on one scheduler object, each had its solver run while the
\* other was in flight, and they returned different schedules.
C22_Witness ==
    /\ \A c \in CallIds :
          /\ calls[c].pc = "returned"
          /\ calls[c].overlapped
          /\ calls[c].result.status = "success"
    /\ calls[1].object = calls[2].object
    /\ calls[1].result.schedule # calls[2].result.schedule

====
